---- MODULE Spec2Model ----
(***************************************************************************)
(* FAC-HABITAT availability monitor.                                       *)
(*                                                                         *)
(* Two programs are modelled:                                              *)
(*   src/fac-habitat-monitor/monitor.py  (scheduled run: scan, snapshot    *)
(*                                        file, Telegram notification)     *)
(*   src/fac_habitat_monitor.py          (interactive scan loop)           *)
(*                                                                         *)
(* SpecExtract : check_availability of both files applied to one fetched   *)
(*               reservation fragment.                                     *)
(* Spec        : successive runs of monitor.py main() against the          *)
(*               snapshot file last_state.json, and scan_all().            *)
(* SpecRepeat  : runs of main() that see the same records again.           *)
(* SpecFilter  : get_idf_residences of both files applied to one catalog.  *)
(***************************************************************************)
EXTENDS Integers, Sequences, FiniteSets, TLC

\* ------------------------------------------------------------ bounds ----
\* rows (<tr>) in one reservation fragment
MaxRows == 2
\* residences in the filtered directory
NumRes == 2
\* unit records observed in one run, all residences together
MaxUnits == 2
\* successive runs of main() (one process each)
MaxRuns == 3

\* ------------------------------------------------------ status lattice --
Status == {"INDISPONIBLE", "DEMANDE_POSSIBLE", "DEPOSER_DEMANDE", "DISPONIBLE"}

\* rank = {"INDISPONIBLE": 0, "DEMANDE_POSSIBLE": 1, "DEPOSER_DEMANDE": 2, "DISPONIBLE": 3}
rank ==
  [s \in Status |-> CASE s = "INDISPONIBLE" -> 0
                      [] s = "DEMANDE_POSSIBLE" -> 1
                      [] s = "DEPOSER_DEMANDE" -> 2
                      [] s = "DISPONIBLE" -> 3]

\* --------------------------------------------------------- cell texts ---
\* The characters of the cell texts used as inputs (text after
\* get_text(strip=True)).
Chars ==
  [t \in {"T1", "T2", "T3 Bis", "Studio", "T", "450 EUR", "18 m2", ""} |->
     CASE t = "T1" -> <<"T", "1">>
       [] t = "T2" -> <<"T", "2">>
       [] t = "T3 Bis" -> <<"T", "3", " ", "B", "i", "s">>
       [] t = "Studio" -> <<"S", "t", "u", "d", "i", "o">>
       [] t = "T" -> <<"T">>
       [] t = "450 EUR" -> <<"4", "5", "0", " ", "E", "U", "R">>
       [] t = "18 m2" -> <<"1", "8", " ", "m", "2">>
       [] t = "" -> <<>>]

Digits == {"0", "1", "2", "3", "4", "5", "6", "7", "8", "9"}

\* variant: r"T" instead of r"T\d"
re_match_T(type_cell) ==
  LET c == Chars[type_cell]
  IN  Len(c) >= 1 /\ c[1] = "T"

\* re.match(r"T\d", type_cell): anchored at the start, not at the end
re_match_T_digit(type_cell) ==
  LET c == Chars[type_cell]
  IN  Len(c) >= 2 /\ c[1] = "T" /\ c[2] \in Digits

\* ------------------------------------------------------ row classifier --
\* variant: the first two branches in the other order
ClassifyReordered(has_btn, has_dispo_immed, is_green, has_aucune) ==
  IF has_btn /\ ~has_aucune THEN "DEPOSER_DEMANDE"
  ELSE IF has_dispo_immed \/ is_green THEN "DISPONIBLE"
  ELSE IF has_btn /\ has_aucune THEN "DEMANDE_POSSIBLE"
  ELSE "INDISPONIBLE"

\* the if/elif cascade of check_availability (the same text in both files)
Classify(has_btn, has_dispo_immed, is_green, has_aucune) ==
  IF has_dispo_immed \/ is_green THEN "DISPONIBLE"
  ELSE IF has_btn /\ ~has_aucune THEN "DEPOSER_DEMANDE"
  ELSE IF has_btn /\ has_aucune THEN "DEMANDE_POSSIBLE"
  ELSE "INDISPONIBLE"

\* ------------------------------------------------------------- inputs ---
\* One <tr>: the texts of its <td> cells and the four signals read from its
\* last cell.
MkRow(type_cell, n, b, im, g, a) ==
  [cols |-> SubSeq(<<type_cell, "450 EUR", "18 m2">>, 1, n),
   has_btn |-> b, has_dispo_immed |-> im, is_green |-> g, has_aucune |-> a]

\* rows of a unit table: every combination of the four signals
SignalRows ==
  {MkRow("T1", 3, b, im, g, a) : b \in BOOLEAN, im \in BOOLEAN,
                                  g \in BOOLEAN, a \in BOOLEAN}

\* rows that exercise the row gate (cell count, first-cell text)
GateRows ==
  {MkRow("Studio", 3, TRUE, FALSE, FALSE, FALSE),
   MkRow("T", 3, FALSE, TRUE, FALSE, FALSE),
   MkRow("T1", 1, FALSE, FALSE, FALSE, FALSE),
   MkRow("T1", 0, FALSE, FALSE, FALSE, FALSE),
   MkRow("T3 Bis", 2, TRUE, FALSE, FALSE, TRUE)}

Rows == SignalRows \cup GateRows

SeqsUpTo(S, n) == UNION {[1..k -> S] : k \in 0..n}

\* A fetched fragment: its rows and the three substring tests on the raw
\* markup.  An <a class="btn_reserver"> in any row puts the substring
\* "btn_reserver" in the markup.
Markups ==
  {[rows |-> rs, has_deposer |-> d, has_immed |-> im, has_aucune |-> a] :
     rs \in SeqsUpTo(Rows, MaxRows), d \in BOOLEAN, im \in BOOLEAN, a \in BOOLEAN}

WellFormed(m) ==
  (\E k \in 1..Len(m.rows) : m.rows[k].has_btn) => m.has_deposer

\* ------------------------------------------------- check_availability ---
\* body of "for row in rows": zero or one record
RowRecord(row) ==
  IF Len(row.cols) < 2 THEN <<>>
  ELSE IF ~re_match_T_digit(row.cols[1]) THEN <<>>
  ELSE <<[type |-> row.cols[1],
          loyer |-> IF Len(row.cols) > 1 THEN row.cols[2] ELSE "",
          surface |-> IF Len(row.cols) > 2 THEN row.cols[3] ELSE "",
          status |-> Classify(row.has_btn, row.has_dispo_immed, row.is_green,
                              row.has_aucune)]>>

RECURSIVE RowRecords(_)
RowRecords(rows) ==
  IF rows = <<>> THEN <<>>
  ELSE RowRecord(Head(rows)) \o RowRecords(Tail(rows))

Synthetic(status) ==
  <<[type |-> "?", loyer |-> "", surface |-> "", status |-> status]>>

\* "if not results:" block of fac-habitat-monitor/monitor.py
FallbackMonitor(m) ==
  IF m.has_immed THEN Synthetic("DISPONIBLE")
  ELSE IF m.has_deposer /\ ~m.has_aucune THEN Synthetic("DEPOSER_DEMANDE")
  ELSE <<>>

\* "if not results:" block of fac_habitat_monitor.py
FallbackFac(m) ==
  IF m.has_immed THEN Synthetic("DISPONIBLE")
  ELSE IF m.has_deposer /\ ~m.has_aucune THEN Synthetic("DEPOSER_DEMANDE")
  ELSE IF m.has_deposer THEN Synthetic("DEMANDE_POSSIBLE")
  ELSE <<>>

\* variant: the fallback block runs whatever the rows gave
check_availability_always_fallback(m) ==
  RowRecords(m.rows) \o FallbackMonitor(m)

\* fac-habitat-monitor/monitor.py
check_availability(m) ==
  LET results == RowRecords(m.rows)
  IN  IF results = <<>> THEN FallbackMonitor(m) ELSE results

\* fac_habitat_monitor.py
check_availability_fac(m) ==
  LET results == RowRecords(m.rows)
  IN  IF results = <<>> THEN FallbackFac(m) ELSE results

\* ------------------------------------------------ fragments scanned -----
\* Reservation fragments served to main(): unit tables with the labels T1
\* and T2 and one signal combination per status, and fragments without any
\* row, told apart by the substring tests alone.
ScanRows ==
  {MkRow(t, 3, sg[1], sg[2], sg[3], sg[4]) :
     t \in {"T1", "T2"},
     sg \in {<<FALSE, FALSE, FALSE, TRUE>>, <<TRUE, FALSE, FALSE, TRUE>>,
             <<TRUE, FALSE, FALSE, FALSE>>, <<TRUE, FALSE, TRUE, FALSE>>}}

ScanMarkups ==
  {m \in Markups :
     /\ WellFormed(m)
     /\ \A k \in 1..Len(m.rows) : m.rows[k] \in ScanRows
     /\ m.rows # <<>> =>
          /\ m.has_deposer = (\E k \in 1..Len(m.rows) : m.rows[k].has_btn)
          /\ ~m.has_immed
          /\ m.has_aucune = (\E k \in 1..Len(m.rows) : m.rows[k].has_aucune)}

\* ------------------------------------------------------------ main() ----
\* residences = get_idf_residences(): the filtered directory, by id
residences == [n \in 1..NumRes |-> n]

\* key = f"{res['id']}_{l['type']}": residence ids are the numeric ids of the
\* catalog and hold no "_", so the string determines the pair
SnapshotKey(rid, type) == <<rid, type>>

\* d[k] = v
Put(d, k, v) == [x \in DOMAIN d \cup {k} |-> IF x = k THEN v ELSE d[x]]

\* d.get(k, default)
Get(d, k, default) == IF k \in DOMAIN d THEN d[k] ELSE default

EmptyDict == <<>>

\* variant: >= instead of >
IsUpgradeOrSame(status, prev) == rank[status] >= rank[prev]

\* if rank.get(l["status"], 0) > rank.get(prev, 0)
IsUpgrade(status, prev) == rank[status] > rank[prev]

\* variant: insert(0, ...) instead of append
AddEventFirst(events, e) == <<e>> \o events

\* new_availabilities.append({...})
AddEvent(events, e) == Append(events, e)

\* variant: a status below the stored one is not written
StoreStatusKeepBest(cs, prev, k, status) ==
  IF rank[status] >= rank[Get(prev, k, "INDISPONIBLE")]
  THEN Put(cs, k, status)
  ELSE Put(cs, k, Get(prev, k, "INDISPONIBLE"))

\* current_state[key] = l["status"]
StoreStatus(cs, prev, k, status) == Put(cs, k, status)

\* "for l in logements:" of main(): the snapshot being built and the events
RECURSIVE ProcessUnits(_, _, _, _, _)
ProcessUnits(rid, logements, cs, events, prev) ==
  IF logements = <<>>
  THEN [current_state |-> cs, new_availabilities |-> events]
  ELSE LET l == Head(logements)
           k == SnapshotKey(rid, l.type)
           p == Get(prev, k, "INDISPONIBLE")
           e == [residence |-> rid, type |-> l.type, loyer |-> l.loyer,
                 status |-> l.status, prev_status |-> p]
       IN  ProcessUnits(rid, Tail(logements),
                        StoreStatus(cs, prev, k, l.status),
                        IF IsUpgrade(l.status, p) THEN AddEvent(events, e)
                        ELSE events,
                        prev)

\* variant: nothing is recorded for the residence
ExceptDropsEntry(results_so_far, rid) == results_so_far

\* all_results.append((res, [])): no iframe, or the except handler
AppendEmpty(results_so_far, rid) == Append(results_so_far, <<rid, <<>>>>)

\* load_previous_state()
load_previous_state(file) == IF file.exists THEN file.data ELSE EmptyDict

\* save_state(state)
save_state(state) == [exists |-> TRUE, data |-> state]

\* ------------------------------------------------ get_idf_residences ---
\* entries in the catalog
MaxCatalog == 2

\* The code points of the texts of the catalog; Python compares, lowers and
\* searches strings by code point.
FilterTexts ==
  {"", "75001", "69001", "94200", "A", "B", "C", "Res LogiFac", "logifac", "Résidence 1", "Résidence 2",
   "Résidence 3", "Résidence 4", "75", "77", "78", "91", "92", "93", "94", "95"}

Code ==
  [t \in FilterTexts |->
     CASE t = "" -> <<>>
       [] t = "75001" -> <<55, 53, 48, 48, 49>>
       [] t = "69001" -> <<54, 57, 48, 48, 49>>
       [] t = "94200" -> <<57, 52, 50, 48, 48>>
       [] t = "A" -> <<65>>
       [] t = "B" -> <<66>>
       [] t = "C" -> <<67>>
       [] t = "Res LogiFac" -> <<82, 101, 115, 32, 76, 111, 103, 105, 70, 97, 99>>
       [] t = "logifac" -> <<108, 111, 103, 105, 102, 97, 99>>
       [] t = "Résidence 1" -> <<82, 233, 115, 105, 100, 101, 110, 99, 101, 32, 49>>
       [] t = "Résidence 2" -> <<82, 233, 115, 105, 100, 101, 110, 99, 101, 32, 50>>
       [] t = "Résidence 3" -> <<82, 233, 115, 105, 100, 101, 110, 99, 101, 32, 51>>
       [] t = "Résidence 4" -> <<82, 233, 115, 105, 100, 101, 110, 99, 101, 32, 52>>
       [] t = "75" -> <<55, 53>>
       [] t = "77" -> <<55, 55>>
       [] t = "78" -> <<55, 56>>
       [] t = "91" -> <<57, 49>>
       [] t = "92" -> <<57, 50>>
       [] t = "93" -> <<57, 51>>
       [] t = "94" -> <<57, 52>>
       [] t = "95" -> <<57, 53>>]

\* IDF_PREFIXES
IDF_PREFIXES == {"75", "77", "78", "91", "92", "93", "94", "95"}

\* cp.startswith(IDF_PREFIXES)
startswith(t, prefixes) ==
  \E p \in prefixes :
    /\ Len(Code[p]) <= Len(Code[t])
    /\ SubSeq(Code[t], 1, Len(Code[p])) = Code[p]

\* nom.lower(), on code points
lower(cs) == [k \in 1..Len(cs) |-> IF cs[k] >= 65 /\ cs[k] <= 90
                                   THEN cs[k] + 32 ELSE cs[k]]

\* sub in cs
contains(cs, sub) ==
  \E k \in 0..(Len(cs) - Len(sub)) : SubSeq(cs, k + 1, k + Len(sub)) = sub

\* a < b for str: the first differing code point decides, a proper prefix
\* is smaller
RECURSIVE str_lt(_, _)
str_lt(a, b) ==
  IF b = <<>> THEN FALSE
  ELSE IF a = <<>> THEN TRUE
  ELSE IF Head(a) # Head(b) THEN Head(a) < Head(b)
  ELSE str_lt(Tail(a), Tail(b))

\* key=lambda r: (r["cp"], r["nom"]), compared as tuples
key_lt(r1, r2) ==
  \/ str_lt(Code[r1.cp], Code[r2.cp])
  \/ r1.cp = r2.cp /\ str_lt(Code[r1.nom], Code[r2.nom])

\* list.sort is stable: an element goes behind those that are not greater
RECURSIVE insert_sorted(_, _)
insert_sorted(sorted, r) ==
  IF sorted = <<>> THEN <<r>>
  ELSE IF key_lt(r, Head(sorted)) THEN <<r>> \o sorted
  ELSE <<Head(sorted)>> \o insert_sorted(Tail(sorted), r)

RECURSIVE sort(_)
sort(rs) ==
  IF rs = <<>> THEN <<>>
  ELSE insert_sorted(sort(SubSeq(rs, 1, Len(rs) - 1)), rs[Len(rs)])

\* f"Résidence {rid}"
DefaultNom(rid) ==
  CASE rid = 1 -> "Résidence 1"
    [] rid = 2 -> "Résidence 2"
    [] rid = 3 -> "Résidence 3"
    [] OTHER -> "Résidence 4"

\* the entry appended to idf
IdfEntry(rid, info) ==
  [id |-> rid,
   nom |-> Get(info, "titre", Get(info, "titre_fr", DefaultNom(rid))),
   cp |-> Get(info, "cp", "")]

\* the for loop of get_idf_residences in fac-habitat-monitor/monitor.py
RECURSIVE SelectMonitor(_)
SelectMonitor(items) ==
  IF items = <<>> THEN <<>>
  ELSE LET rid == Head(items)[1]
           info == Head(items)[2]
           cp == Get(info, "cp", "")
           nom == Get(info, "titre", Get(info, "titre_fr", ""))
       IN  (IF startswith(cp, IDF_PREFIXES)
                 /\ ~contains(lower(Code[nom]), Code["logifac"])
            THEN <<IdfEntry(rid, info)>> ELSE <<>>)
             \o SelectMonitor(Tail(items))

\* the for loop of get_idf_residences in fac_habitat_monitor.py
RECURSIVE SelectFac(_)
SelectFac(items) ==
  IF items = <<>> THEN <<>>
  ELSE LET rid == Head(items)[1]
           info == Head(items)[2]
           cp == Get(info, "cp", "")
       IN  (IF startswith(cp, IDF_PREFIXES)
            THEN <<IdfEntry(rid, info)>> ELSE <<>>)
             \o SelectFac(Tail(items))

\* fac-habitat-monitor/monitor.py
get_idf_residences(items) == sort(SelectMonitor(items))

\* fac_habitat_monitor.py
get_idf_residences_fac(items) == sort(SelectFac(items))

\* One catalog record: any of the keys cp, titre, titre_fr may be missing.
Absent == "<absent>"

InfoOf(c, t, tf) ==
  LET all == [cp |-> c, titre |-> t, titre_fr |-> tf]
  IN  [k \in {x \in {"cp", "titre", "titre_fr"} : all[x] # Absent} |-> all[k]]

Infos ==
  {InfoOf(c, t, tf) : c \in {Absent, "75001", "69001", "94200"},
                      t \in {Absent, "A", "B", "Res LogiFac"},
                      tf \in {Absent, "C"}}

\* data.items(): the catalog in document order, ids 1, 2, ...
Catalogs ==
  UNION {{[n \in 1..k |-> <<n, f[n]>>] : f \in [1..k -> Infos]} :
           k \in 0..MaxCatalog}

\* ---------------------------------------------------------- variables ---
VARIABLES
  html,      \* the fragment fetched by check_availability
  xpc,       \* "fetched", "monitor" (returned by monitor.py), "fac"
  results,   \* the list returned
  pc,        \* position of the running main(): "start", "loop", "sleep",
             \* "notify", "done", "killed"
  run,       \* number of the run
  store,     \* the file last_state.json
  previous_state,
  current_state,
  all_results,
  new_availabilities,
  i,         \* index of the residence of the current loop iteration
  available,         \* scan_all: residences with an open or immediate unit
  demande_possible,  \* scan_all: residences where a request is possible
  errors,            \* scan_all: residences without iframe or that raised
  store0,    \* history: the file when the process started
  outcomes,  \* history: what happened to each residence attempted
  n_reads,   \* history: reads of the file in this run
  n_writes,  \* history: writes of the file in this run
  regressed, \* history: keys the last write lowered
  prev_results, \* history: all_results of the previous run (SpecRepeat)
  corrupt,   \* the file holds a truncated or partial document
  telegram,  \* history: what send_telegram did in this run
  delayed,   \* history: time.sleep ran since the last upstream request
  failure,   \* history: the file access that raised in this run
  prev_telegram,  \* history: telegram of the previous run (SpecRepeat)
  data,      \* the catalog fetched by get_idf_residences
  idf,       \* the list it returns
  fpc        \* "fetched", "monitor" (returned by monitor.py), "fac"

evars == <<html, xpc, results>>

locals == <<previous_state, current_state, all_results, new_availabilities, i>>

slocals == <<available, demande_possible, errors>>

hist == <<store0, outcomes, n_reads, n_writes, regressed, prev_results>>

xhist == <<corrupt, telegram, delayed, failure>>

fvars == <<data, idf, fpc>>

mvars == <<pc, run, store, locals, slocals, hist, xhist, prev_telegram, fvars>>

vars == <<evars, mvars>>

NoMarkup == [rows |-> <<>>, has_deposer |-> FALSE, has_immed |-> FALSE,
             has_aucune |-> FALSE]

NoFile == [exists |-> FALSE, data |-> EmptyDict]

\* no catalog under examination
NoCatalog ==
  /\ data = <<>>
  /\ idf = <<>>
  /\ fpc = "idle"

\* the state of a process entering main() of monitor.py (pc = "start") or
\* scan_all() of fac_habitat_monitor.py (pc = "scan_loop")
InitMain ==
  /\ pc \in {"start", "scan_loop"}
  /\ run = 1
  /\ store = NoFile
  /\ previous_state = EmptyDict
  /\ current_state = EmptyDict
  /\ all_results = <<>>
  /\ new_availabilities = <<>>
  /\ i = 1
  /\ available = <<>>
  /\ demande_possible = <<>>
  /\ errors = <<>>
  /\ store0 = NoFile
  /\ outcomes = <<>>
  /\ n_reads = 0
  /\ n_writes = 0
  /\ regressed = {}
  /\ prev_results = <<>>
  /\ corrupt = FALSE
  /\ telegram = "none"
  /\ delayed = TRUE
  /\ failure = "none"
  /\ prev_telegram = "none"

\* ------------------------------------------------------- SpecExtract ----
InitExtract ==
  /\ html \in {m \in Markups : WellFormed(m)}
  /\ xpc = "fetched"
  /\ results = <<>>
  /\ InitMain
  /\ pc = "start"
  /\ NoCatalog

CheckAvailabilityMonitor ==
  /\ xpc = "fetched"
  /\ results' = check_availability(html)
  /\ xpc' = "monitor"
  /\ UNCHANGED <<html, mvars>>

CheckAvailabilityFac ==
  /\ xpc = "fetched"
  /\ results' = check_availability_fac(html)
  /\ xpc' = "fac"
  /\ UNCHANGED <<html, mvars>>

NextExtract == CheckAvailabilityMonitor \/ CheckAvailabilityFac

SpecExtract == InitExtract /\ [][NextExtract]_vars

\* -------------------------------------------------------------- Spec ----
Init ==
  /\ html = NoMarkup
  /\ xpc = "idle"
  /\ results = <<>>
  /\ InitMain
  /\ NoCatalog

\* previous_state = load_previous_state(); current_state = {}; ...
Load ==
  /\ pc = "start"
  /\ ~corrupt
  /\ previous_state' = load_previous_state(store)
  /\ current_state' = EmptyDict
  /\ all_results' = <<>>
  /\ new_availabilities' = <<>>
  /\ i' = 1
  /\ n_reads' = n_reads + 1
  /\ pc' = "loop"
  /\ UNCHANGED <<evars, fvars, prev_telegram, xhist, run, store, slocals, store0, outcomes, n_writes,
                 regressed, prev_results>>

\* variant: the loop is left after the first residence
LoopFinishedEarly == i > 1

\* the for loop over residences is exhausted
LoopFinished == i > Len(residences)

UnitsSoFar(rs) ==
  LET RECURSIVE Sum(_)
      Sum(n) == IF n = 0 THEN 0 ELSE Len(rs[n][2]) + Sum(n - 1)
  IN  Sum(Len(rs))

\* loop body: get_iframe_url raises; the except handler records an empty list
IterIframeRaises ==
  /\ pc = "loop" /\ ~LoopFinished
  /\ all_results' = AppendEmpty(all_results, residences[i])
  /\ outcomes' = Append(outcomes, "iframe_error")
  /\ pc' = "sleep"
  /\ delayed' = FALSE
  /\ UNCHANGED <<evars, fvars, prev_telegram, corrupt, telegram, failure, run, store, previous_state, current_state,
                 new_availabilities, i, slocals, store0, n_reads, n_writes,
                 regressed, prev_results>>

\* loop body: get_iframe_url returns None; "continue"
IterNoIframe ==
  /\ pc = "loop" /\ ~LoopFinished
  /\ all_results' = AppendEmpty(all_results, residences[i])
  /\ outcomes' = Append(outcomes, "no_iframe")
  /\ i' = i + 1
  /\ pc' = "loop"
  /\ delayed' = FALSE
  /\ UNCHANGED <<evars, fvars, prev_telegram, corrupt, telegram, failure, run, store, previous_state, current_state,
                 new_availabilities, slocals, store0, n_reads, n_writes,
                 regressed, prev_results>>

\* loop body: check_availability raises; the except handler records an
\* empty list
IterCheckRaises ==
  /\ pc = "loop" /\ ~LoopFinished
  /\ all_results' = AppendEmpty(all_results, residences[i])
  /\ outcomes' = Append(outcomes, "fragment_error")
  /\ pc' = "sleep"
  /\ delayed' = FALSE
  /\ UNCHANGED <<evars, fvars, prev_telegram, corrupt, telegram, failure, run, store, previous_state, current_state,
                 new_availabilities, i, slocals, store0, n_reads, n_writes,
                 regressed, prev_results>>

\* loop body: the fragment is fetched and its units are processed
IterScan ==
  /\ pc = "loop" /\ ~LoopFinished
  /\ \E m \in ScanMarkups :
       LET logements == check_availability(m)
           r == ProcessUnits(residences[i], logements, current_state,
                             new_availabilities, previous_state)
       IN  /\ UnitsSoFar(all_results) + Len(logements) <= MaxUnits
           /\ all_results' = Append(all_results, <<residences[i], logements>>)
           /\ current_state' = r.current_state
           /\ new_availabilities' = r.new_availabilities
  /\ outcomes' = Append(outcomes, "ok")
  /\ pc' = "sleep"
  /\ delayed' = FALSE
  /\ UNCHANGED <<evars, fvars, prev_telegram, corrupt, telegram, failure, run, store, previous_state, i, slocals, store0,
                 n_reads, n_writes, regressed, prev_results>>

\* time.sleep(0.5), then the next residence
Sleep ==
  /\ pc = "sleep"
  /\ i' = i + 1
  /\ pc' = "loop"
  /\ delayed' = TRUE
  /\ UNCHANGED <<evars, fvars, prev_telegram, corrupt, telegram, failure, run, store, previous_state, current_state,
                 all_results, new_availabilities, slocals, store0, outcomes,
                 n_reads, n_writes, regressed, prev_results>>

\* load_previous_state() raises (the file exists and cannot be opened or
\* parsed); nothing in main() catches it
LoadFails ==
  /\ pc = "start"
  /\ store.exists
  /\ n_reads' = n_reads + 1
  /\ failure' = "load"
  /\ pc' = "aborted"
  /\ UNCHANGED <<evars, fvars, prev_telegram, corrupt, telegram, delayed, run, store, locals,
                 slocals, store0, outcomes, n_writes, regressed, prev_results>>

\* variant: the exception of save_state is swallowed
AfterSaveFailureContinue == "notify"

\* where main() is after save_state raised: out of main()
AfterSaveFailure == "aborted"

\* save_state(current_state) raises: open() failed and the file is as it
\* was, or the write failed after open(..., "w") truncated the file
SaveFails ==
  /\ pc = "loop" /\ LoopFinished
  /\ \/ UNCHANGED <<store, corrupt>>
     \/ store' = [exists |-> TRUE, data |-> EmptyDict] /\ corrupt' = TRUE
  /\ n_writes' = n_writes + 1
  /\ failure' = "save"
  /\ pc' = AfterSaveFailure
  /\ UNCHANGED <<evars, fvars, prev_telegram, telegram, delayed, run, locals, slocals,
                 store0, outcomes, n_reads, regressed, prev_results>>

\* save_state(current_state), then the HTML page
Save ==
  /\ pc = "loop" /\ LoopFinished
  /\ store' = save_state(current_state)
  /\ n_writes' = n_writes + 1
  /\ regressed' = {k \in DOMAIN current_state \cap DOMAIN previous_state :
                     rank[current_state[k]] < rank[previous_state[k]]}
  /\ pc' = "notify"
  /\ UNCHANGED <<evars, fvars, prev_telegram, xhist, run, locals, slocals, store0, outcomes, n_reads,
                 prev_results>>

\* send_telegram(message): missing token or chat id, HTTP 200, another
\* status, or urlopen raising (caught); nothing escapes
send_telegram ==
  {"no_credentials", "sent", "http_error", "exception_caught"}

\* if new_availabilities: send_telegram(msg); the summary; return
Notify ==
  /\ pc = "notify"
  /\ IF new_availabilities # <<>>
     THEN telegram' \in send_telegram
     ELSE telegram' = "not_called"
  /\ pc' = "done"
  /\ UNCHANGED <<evars, fvars, prev_telegram, corrupt, delayed, failure, run, store, locals,
                 slocals, hist>>

\* the process is terminated from outside; its memory is gone
Terminate ==
  /\ pc \in {"start", "loop", "sleep", "notify"}
  /\ pc' = "killed"
  /\ previous_state' = EmptyDict
  /\ current_state' = EmptyDict
  /\ all_results' = <<>>
  /\ new_availabilities' = <<>>
  /\ UNCHANGED <<evars, fvars, prev_telegram, xhist, run, store, i, slocals, hist>>

\* the scheduler starts the next run, a new process
StartProcess ==
  /\ run' = run + 1
  /\ pc' = "start"
  /\ previous_state' = EmptyDict
  /\ current_state' = EmptyDict
  /\ all_results' = <<>>
  /\ new_availabilities' = <<>>
  /\ i' = 1
  /\ store0' = store
  /\ outcomes' = <<>>
  /\ n_reads' = 0
  /\ n_writes' = 0
  /\ telegram' = "none"
  /\ delayed' = TRUE
  /\ failure' = "none"
  /\ UNCHANGED <<evars, fvars, corrupt, store, slocals, regressed>>

Restart ==
  /\ pc \in {"done", "killed", "aborted"}
  /\ run < MaxRuns
  /\ StartProcess
  /\ UNCHANGED <<prev_results, prev_telegram>>

\* --------------------------------------------------------- scan_all() ---
\* the statuses of the records of one residence
Statuses(rs) == {rs[n].status : n \in 1..Len(rs)}

\* loop body: get_iframe_url raises; the except handler
ScanIframeRaises ==
  /\ pc = "scan_loop" /\ ~LoopFinished
  /\ errors' = Append(errors, residences[i])
  /\ outcomes' = Append(outcomes, "iframe_error")
  /\ pc' = "scan_sleep"
  /\ delayed' = FALSE
  /\ UNCHANGED <<evars, fvars, prev_telegram, corrupt, telegram, failure, run, store, locals, available, demande_possible,
                 store0, n_reads, n_writes, regressed, prev_results>>

\* loop body: get_iframe_url returns None; "continue"
ScanNoIframe ==
  /\ pc = "scan_loop" /\ ~LoopFinished
  /\ errors' = Append(errors, residences[i])
  /\ outcomes' = Append(outcomes, "no_iframe")
  /\ i' = i + 1
  /\ delayed' = FALSE
  /\ UNCHANGED <<evars, fvars, prev_telegram, corrupt, telegram, failure, pc, run, store, previous_state, current_state,
                 all_results, new_availabilities, available, demande_possible,
                 store0, n_reads, n_writes, regressed, prev_results>>

\* loop body: check_availability raises; the except handler
ScanCheckRaises ==
  /\ pc = "scan_loop" /\ ~LoopFinished
  /\ errors' = Append(errors, residences[i])
  /\ outcomes' = Append(outcomes, "fragment_error")
  /\ pc' = "scan_sleep"
  /\ delayed' = FALSE
  /\ UNCHANGED <<evars, fvars, prev_telegram, corrupt, telegram, failure, run, store, locals, available, demande_possible,
                 store0, n_reads, n_writes, regressed, prev_results>>

\* loop body: check_availability returns no record; "continue"
ScanNoData ==
  /\ pc = "scan_loop" /\ ~LoopFinished
  /\ \E m \in ScanMarkups : check_availability_fac(m) = <<>>
  /\ outcomes' = Append(outcomes, "no_data")
  /\ i' = i + 1
  /\ delayed' = FALSE
  /\ UNCHANGED <<evars, fvars, prev_telegram, corrupt, telegram, failure, pc, run, store, previous_state, current_state,
                 all_results, new_availabilities, slocals, store0, n_reads,
                 n_writes, regressed, prev_results>>

UnitsListed ==
  LET RECURSIVE Sum(_)
      Sum(rs) == IF rs = <<>> THEN 0 ELSE Len(Head(rs)[2]) + Sum(Tail(rs))
  IN  Sum(available) + Sum(demande_possible)

\* loop body: the fragment has records; the residence is filed by its best
\* status
ScanResidence ==
  /\ pc = "scan_loop" /\ ~LoopFinished
  /\ \E m \in ScanMarkups :
       LET rs == check_availability_fac(m)
           statuses == Statuses(rs)
       IN  /\ rs # <<>>
           /\ UnitsListed + Len(rs) <= MaxUnits
           /\ IF "DISPONIBLE" \in statuses \/ "DEPOSER_DEMANDE" \in statuses
              THEN /\ available' = Append(available, <<residences[i], rs>>)
                   /\ UNCHANGED demande_possible
              ELSE IF "DEMANDE_POSSIBLE" \in statuses
              THEN /\ demande_possible' =
                        Append(demande_possible, <<residences[i], rs>>)
                   /\ UNCHANGED available
              ELSE UNCHANGED <<available, demande_possible>>
  /\ outcomes' = Append(outcomes, "ok")
  /\ pc' = "scan_sleep"
  /\ delayed' = FALSE
  /\ UNCHANGED <<evars, fvars, prev_telegram, corrupt, telegram, failure, run, store, locals, errors, store0, n_reads,
                 n_writes, regressed, prev_results>>

\* time.sleep(0.5), then the next residence
ScanSleep ==
  /\ pc = "scan_sleep"
  /\ i' = i + 1
  /\ pc' = "scan_loop"
  /\ delayed' = TRUE
  /\ UNCHANGED <<evars, fvars, prev_telegram, corrupt, telegram, failure, run, store, previous_state, current_state,
                 all_results, new_availabilities, slocals, hist>>

\* the summary; return len(available) > 0
ScanReturn ==
  /\ pc = "scan_loop" /\ LoopFinished
  /\ pc' = "scan_done"
  /\ UNCHANGED <<evars, fvars, prev_telegram, xhist, run, store, locals, slocals, hist>>

\* --loop: the next scan_all over the same residences
ScanAgain ==
  /\ pc = "scan_done"
  /\ run < MaxRuns
  /\ run' = run + 1
  /\ pc' = "scan_loop"
  /\ i' = 1
  /\ available' = <<>>
  /\ demande_possible' = <<>>
  /\ errors' = <<>>
  /\ outcomes' = <<>>
  /\ delayed' = TRUE
  /\ UNCHANGED <<evars, fvars, prev_telegram, corrupt, telegram, failure, store, previous_state, current_state, all_results,
                 new_availabilities, store0, n_reads, n_writes, regressed,
                 prev_results>>

Next ==
  \/ Load
  \/ LoadFails
  \/ SaveFails
  \/ IterIframeRaises
  \/ IterNoIframe
  \/ IterCheckRaises
  \/ IterScan
  \/ Sleep
  \/ Save
  \/ Notify
  \/ Terminate
  \/ Restart
  \/ ScanIframeRaises
  \/ ScanNoIframe
  \/ ScanCheckRaises
  \/ ScanNoData
  \/ ScanResidence
  \/ ScanSleep
  \/ ScanReturn
  \/ ScanAgain

Spec == Init /\ [][Next]_vars

\* -------------------------------------------------------- SpecRepeat ----
\* Completed runs in which, from the second run on, every residence yields
\* the unit records it yielded in the run before.
SameAsBefore ==
  run = 1 \/ \A n \in 1..Len(all_results) : all_results[n] = prev_results[n]

RepeatIframeRaises == IterIframeRaises /\ SameAsBefore'

RepeatNoIframe == IterNoIframe /\ SameAsBefore'

RepeatCheckRaises == IterCheckRaises /\ SameAsBefore'

RepeatScan == IterScan /\ SameAsBefore'

RestartRepeat ==
  /\ pc = "done"
  /\ run < MaxRuns
  /\ StartProcess
  /\ prev_results' = all_results
  /\ prev_telegram' = telegram

NextRepeat ==
  \/ Load
  \/ RepeatIframeRaises
  \/ RepeatNoIframe
  \/ RepeatCheckRaises
  \/ RepeatScan
  \/ Sleep
  \/ Save
  \/ Notify
  \/ RestartRepeat

\* a process entering main() of monitor.py
InitRepeat == Init /\ pc = "start"

SpecRepeat == InitRepeat /\ [][NextRepeat]_vars

\* -------------------------------------------------------- SpecFilter ----
InitFilter ==
  /\ html = NoMarkup
  /\ xpc = "idle"
  /\ results = <<>>
  /\ InitMain
  /\ pc = "start"
  /\ data \in Catalogs
  /\ idf = <<>>
  /\ fpc = "fetched"

FilterMonitor ==
  /\ fpc = "fetched"
  /\ idf' = get_idf_residences(data)
  /\ fpc' = "monitor"
  /\ UNCHANGED <<evars, data, pc, run, store, locals, slocals, hist, xhist,
                 prev_telegram>>

FilterFac ==
  /\ fpc = "fetched"
  /\ idf' = get_idf_residences_fac(data)
  /\ fpc' = "fac"
  /\ UNCHANGED <<evars, data, pc, run, store, locals, slocals, hist, xhist,
                 prev_telegram>>

NextFilter == FilterMonitor \/ FilterFac

SpecFilter == InitFilter /\ [][NextFilter]_vars

\* ------------------------------------------- properties: extraction -----
\* first-cell texts that are a unit-type label: "T" followed by a digit
UnitLabels == {"T1", "T2", "T3 Bis"}

\* the rows of the fragment that carry a unit: two cells or more and a
\* unit-type label in the first one
AcceptedRows(m) ==
  SelectSeq(m.rows, LAMBDA r : Len(r.cols) >= 2 /\ r.cols[1] \in UnitLabels)

Returned == xpc \in {"monitor", "fac"}

\* C1: each accepted row gets exactly one of the four statuses, the one the
\* first-match cascade gives for its four signals: DISPONIBLE iff immediate
\* text or green badge; DEPOSER_DEMANDE iff neither, and button without none
\* text; DEMANDE_POSSIBLE iff neither, and button with none text;
\* INDISPONIBLE iff neither and no button.  Immediate text together with
\* none text gives DISPONIBLE.
C1_ClassifierCascade ==
  Returned =>
    LET acc == AcceptedRows(html)
    IN  acc # <<>> =>
          /\ Len(results) = Len(acc)
          /\ \A n \in 1..Len(acc) :
               LET r == acc[n]
                   s == results[n].status
                   top == r.has_dispo_immed \/ r.is_green
               IN  /\ s \in Status
                   /\ (s = "DISPONIBLE") <=> top
                   /\ (s = "DEPOSER_DEMANDE")
                        <=> (~top /\ r.has_btn /\ ~r.has_aucune)
                   /\ (s = "DEMANDE_POSSIBLE")
                        <=> (~top /\ r.has_btn /\ r.has_aucune)
                   /\ (s = "INDISPONIBLE") <=> (~top /\ ~r.has_btn)
                   /\ (r.has_dispo_immed /\ r.has_aucune => s = "DISPONIBLE")

\* a returned list whose first record comes from a row with a button,
\* immediate text and none text together, classified DISPONIBLE
C1_Witness ==
  /\ Returned
  /\ Len(html.rows) = MaxRows
  /\ AcceptedRows(html) # <<>>
  /\ LET r == AcceptedRows(html)[1]
     IN  r.has_btn /\ r.has_dispo_immed /\ r.has_aucune /\ ~r.is_green
  /\ results[1].status = "DISPONIBLE"

\* C9: the fallback yields zero or one record and only when no row was
\* accepted: with an immediate marker exactly one record ("?", empty rent
\* and surface, DISPONIBLE); with neither immediate nor button/request
\* marker no record; with an accepted row no "?" record.
C9_FallbackArity ==
  Returned =>
    LET acc == AcceptedRows(html)
    IN  /\ acc = <<>> =>
             /\ Len(results) <= 1
             /\ html.has_immed =>
                  results = <<[type |-> "?", loyer |-> "", surface |-> "",
                               status |-> "DISPONIBLE"]>>
             /\ (~html.has_immed /\ ~html.has_deposer) => results = <<>>
        /\ acc # <<>> =>
             \A n \in 1..Len(results) : results[n].type # "?"

\* a fragment with rows, none accepted, and an immediate marker: one
\* synthetic record
C9_Witness ==
  /\ xpc = "monitor"
  /\ html.rows # <<>>
  /\ AcceptedRows(html) = <<>>
  /\ html.has_immed
  /\ Len(results) = 1
  /\ results[1].type = "?"

\* C10: in both files the synthetic record follows the cascade on the
\* whole-markup signals: immediate marker gives DISPONIBLE; else button
\* marker without none marker gives DEPOSER_DEMANDE; else button marker with
\* none marker gives DEMANDE_POSSIBLE.
C10_FallbackCascade ==
  (Returned /\ AcceptedRows(html) = <<>>) =>
    /\ html.has_immed =>
         (Len(results) = 1 /\ results[1].status = "DISPONIBLE")
    /\ (~html.has_immed /\ html.has_deposer /\ ~html.has_aucune) =>
         (Len(results) = 1 /\ results[1].status = "DEPOSER_DEMANDE")
    /\ (~html.has_immed /\ html.has_deposer /\ html.has_aucune) =>
         (Len(results) = 1 /\ results[1].status = "DEMANDE_POSSIBLE")

\* ------------------------------------------------- properties: main() ---
\* the snapshot loaded at the start of the run: the file as the process
\* found it
Loaded == IF store0.exists THEN store0.data ELSE <<>>

\* main() has loaded the snapshot and is alive
InRun == pc \in {"loop", "sleep", "notify", "done"}

\* the snapshot has been written in this run
Saved == pc \in {"notify", "done"}

\* the unit records observed so far, in order of observation
RECURSIVE Flatten(_)
Flatten(rs) ==
  IF rs = <<>> THEN <<>>
  ELSE LET rid == Head(rs)[1]
           us == Head(rs)[2]
       IN  [n \in 1..Len(us) |-> [residence |-> rid, unit |-> us[n]]]
             \o Flatten(Tail(rs))

Observed == Flatten(all_results)

KeyOf(o) == <<o.residence, o.unit.type>>

\* status stored for the key of o in the loaded snapshot, UNAVAILABLE if
\* there is none
StoredFor(o) ==
  IF KeyOf(o) \in DOMAIN Loaded THEN Loaded[KeyOf(o)] ELSE "INDISPONIBLE"

RankOf(st) ==
  CASE st = "DISPONIBLE" -> 3
    [] st = "DEPOSER_DEMANDE" -> 2
    [] st = "DEMANDE_POSSIBLE" -> 1
    [] OTHER -> 0

Higher(o) == RankOf(o.unit.status) > RankOf(StoredFor(o))

EventFor(o) ==
  [residence |-> o.residence, type |-> o.unit.type, loyer |-> o.unit.loyer,
   status |-> o.unit.status, prev_status |-> StoredFor(o)]

Count(sq, x) == Cardinality({n \in 1..Len(sq) : sq[n] = x})

\* C2: an event is emitted for an observed unit record iff the rank of its
\* status is above the rank of the status stored for its key in the snapshot
\* loaded at the start of the run (UNAVAILABLE when the key is absent):
\* every event stands for as many records as are upgrades with its content,
\* and no other event exists.
C2_UpgradeOnly ==
  InRun =>
    /\ \A n \in 1..Len(Observed) :
         LET e == EventFor(Observed[n])
         IN  Count(new_availabilities, e) =
               Cardinality({k \in 1..Len(Observed) :
                              EventFor(Observed[k]) = e /\ Higher(Observed[k])})
    /\ \A n \in 1..Len(new_availabilities) :
         \E k \in 1..Len(Observed) :
           new_availabilities[n] = EventFor(Observed[k]) /\ Higher(Observed[k])

\* a run that observed one upgrade over a stored status and one record that
\* is not an upgrade
C2_Witness ==
  /\ pc = "done"
  /\ Len(new_availabilities) = 1
  /\ new_availabilities[1].prev_status # "INDISPONIBLE"
  /\ \E n \in 1..Len(Observed) :
       /\ KeyOf(Observed[n]) \in DOMAIN Loaded
       /\ ~Higher(Observed[n])

\* C3: a key of the loaded snapshot that was not observed in the run keeps
\* its status in the snapshot written at the end of the run.
C3_CarryOver ==
  Saved =>
    \A k \in DOMAIN Loaded :
      (\A n \in 1..Len(Observed) : KeyOf(Observed[n]) # k) =>
        (store.exists /\ k \in DOMAIN store.data /\ store.data[k] = Loaded[k])

\* C4: all_results holds one entry per residence attempted, in directory
\* order, all of them once the loop is over; a residence that raised or has
\* no iframe has an empty list, no key in the snapshot built or written, and
\* no event.
C4_OneEntryPerResidence ==
  /\ pc = "scan_loop" => Len(outcomes) = i - 1
  /\ pc = "scan_sleep" => Len(outcomes) = i
  /\ pc = "scan_done" => Len(outcomes) = NumRes
  /\ InRun =>
      /\ Len(all_results) = Len(outcomes)
      /\ pc = "loop" => Len(all_results) = i - 1
      /\ pc = "sleep" => Len(all_results) = i
      /\ Saved => Len(all_results) = NumRes
      /\ \A n \in 1..Len(all_results) :
           /\ all_results[n][1] = residences[n]
           /\ outcomes[n] # "ok" =>
                /\ all_results[n][2] = <<>>
                /\ \A k \in DOMAIN current_state : k[1] # residences[n]
                /\ Saved => \A k \in DOMAIN store.data : k[1] # residences[n]
                /\ \A e \in 1..Len(new_availabilities) :
                     new_availabilities[e].residence # residences[n]

\* a finished run whose first residence raised, with a later residence
\* scanned and giving an event
C4_Witness ==
  /\ pc = "done"
  /\ outcomes[1] \in {"iframe_error", "fragment_error"}
  /\ outcomes[Len(outcomes)] = "ok"
  /\ new_availabilities # <<>>
  /\ Loaded # <<>>

\* C5: in one run the file is read once, before any residence is attempted,
\* and written at most once, after every residence was attempted; as long
\* as the run has not written, also when it was terminated, the file is as
\* it was at the start of the run.
C5_StoreWrittenOnceAtEnd ==
  pc \in {"start", "loop", "sleep", "notify", "done", "killed", "aborted"} =>
    /\ n_reads <= 1
    /\ n_writes <= 1
    /\ n_reads = 0 => (outcomes = <<>> /\ n_writes = 0)
    /\ InRun => n_reads = 1
    /\ n_writes = 1 => Len(outcomes) = NumRes
    /\ n_writes = 0 => store = store0

\* a run terminated after it scanned a residence and before the write; the
\* file still holds the snapshot of an earlier run
C5_Witness ==
  /\ pc = "killed"
  /\ n_writes = 0
  /\ \E n \in 1..Len(outcomes) : outcomes[n] = "ok"
  /\ store.exists
  /\ store.data # <<>>
  /\ store = store0

\* C6: a run in which every residence yields the unit records of the run
\* before emits no event.
C6_NoDuplicateNotification ==
  (run >= 2 /\ pc = "done" /\ all_results = prev_results) =>
    new_availabilities = <<>>

\* the last record observed in this run for key k
LastObserved(k) ==
  LET idx == {n \in 1..Len(Observed) : KeyOf(Observed[n]) = k}
      last == CHOOSE n \in idx : \A x \in idx : x <= n
  IN  Observed[last]

\* C7: the snapshot written holds, for every key observed in the run, the
\* status observed in this run (of the last record of that key), also when
\* it is lower than the stored one; and a run that observes, for a key the
\* last write lowered, a status above the lowered one emits the event.
C7_RegressionStored ==
  /\ Saved =>
       /\ store.exists
       /\ \A n \in 1..Len(Observed) :
            LET k == KeyOf(Observed[n])
            IN  k \in DOMAIN store.data
                  /\ store.data[k] = LastObserved(k).unit.status
  /\ pc \in {"loop", "sleep"} =>
       \A n \in 1..Len(Observed) :
         (KeyOf(Observed[n]) \in regressed /\ Higher(Observed[n])) =>
           Count(new_availabilities, EventFor(Observed[n])) >= 1

\* a key lowered by the last write is observed with a higher status and the
\* event is there, with the lowered status as previous status
C7_Witness ==
  /\ pc = "sleep"
  /\ \E n \in 1..Len(Observed) :
       /\ KeyOf(Observed[n]) \in regressed
       /\ Higher(Observed[n])
       /\ StoredFor(Observed[n]) = "DEMANDE_POSSIBLE"
       /\ new_availabilities = <<EventFor(Observed[n])>>

\* the upgrades among the records observed, in order of observation
RECURSIVE UpgradesInOrder(_)
UpgradesInOrder(obs) ==
  IF obs = <<>> THEN <<>>
  ELSE (IF Higher(Head(obs)) THEN <<EventFor(Head(obs))>> ELSE <<>>)
         \o UpgradesInOrder(Tail(obs))

\* C8: the events are in order of observation: residences in directory
\* order, and the records of one residence in their order, whatever the
\* statuses.
C8_EventOrder ==
  InRun => new_availabilities = UpgradesInOrder(Observed)

\* two events, the earlier for the smaller change
C8_Witness ==
  /\ pc = "done"
  /\ Len(new_availabilities) = 2
  /\ new_availabilities[1].residence = residences[1]
  /\ new_availabilities[2].residence = residences[NumRes]
  /\ RankOf(new_availabilities[1].status) < RankOf(new_availabilities[2].status)
  /\ new_availabilities[1].prev_status = new_availabilities[2].prev_status

\* C12: a failing read or write of the file ends the run at once: after a
\* failing read no residence was attempted, nothing was written and nothing
\* was sent; after a failing write nothing was sent.  A read fails only on
\* a file that exists: without file the run goes on with an empty previous
\* snapshot.
C12_StoreFailureAborts ==
  /\ pc = "aborted" <=> failure # "none"
  /\ failure = "load" =>
       /\ store0.exists
       /\ outcomes = <<>> /\ all_results = <<>>
       /\ n_writes = 0 /\ store = store0
       /\ telegram = "none"
  /\ failure = "save" =>
       /\ Len(outcomes) = NumRes
       /\ telegram = "none"
  /\ (InRun /\ ~store0.exists) => previous_state = <<>>

\* the write failed in a run that had events to send, over an existing file
C12_Witness ==
  /\ pc = "aborted"
  /\ failure = "save"
  /\ new_availabilities # <<>>
  /\ store0.exists
  /\ telegram = "none"

\* C14: when the request for the next residence of a scan is due, the delay
\* has run since the requests of the residence before, whatever its outcome.
C14_DelayBetweenResidences ==
  (pc \in {"loop", "scan_loop"} /\ i > 1 /\ ~LoopFinished) => delayed

\* C15: the snapshot is written before send_telegram is called; a
\* notification that is not delivered leaves the run finishing and the file
\* as written; and the run after a run whose notification was not delivered,
\* with the same records, emits no event.
C15_NotifyAfterSave ==
  /\ telegram # "none" =>
       (pc = "done" /\ n_writes = 1 /\ store = [exists |-> TRUE,
                                                data |-> current_state])
  /\ (pc = "done" /\ run >= 2 /\ all_results = prev_results
        /\ prev_telegram \in {"no_credentials", "http_error", "exception_caught"})
       => new_availabilities = <<>>

\* C13: a row gives a record iff it has two cells or more and its first
\* cell starts with T and a digit: the records are those of the accepted
\* rows, one each, in row order, with the first cell as type, the second as
\* rent and the third, when there is one, as surface (empty otherwise);
\* "Studio", "T" and one-cell rows give nothing.
C13_RowGate ==
  Returned =>
    LET acc == AcceptedRows(html)
    IN  /\ \A n \in 1..Len(results) : results[n].type \notin {"Studio", "T", ""}
        /\ acc = <<>> => \A n \in 1..Len(results) : results[n].type = "?"
        /\ acc # <<>> =>
             /\ Len(results) = Len(acc)
             /\ \A n \in 1..Len(acc) :
                  /\ results[n].type = acc[n].cols[1]
                  /\ results[n].loyer = acc[n].cols[2]
                  /\ results[n].surface =
                       (IF Len(acc[n].cols) >= 3 THEN acc[n].cols[3] ELSE "")

\* a two-cell "T3 Bis" row before a "T1" row: two records in that order,
\* the first without surface
C13_Witness ==
  /\ Returned
  /\ Len(html.rows) = 2
  /\ Len(results) = 2
  /\ results[1].type = "T3 Bis" /\ results[1].surface = ""
  /\ results[2].type = "T1" /\ results[2].surface = "18 m2"

\* ------------------------------------------------ properties: filter ----
\* postal codes of the catalogs that start with an allow-listed prefix
IdfCps == {"75001", "94200"}

\* the postal codes and the names of the catalogs, ascending
CpAscending == <<"", "69001", "75001", "94200">>

NomAscending ==
  <<"A", "B", "C", "Res LogiFac", "Résidence 1", "Résidence 2", "Résidence 3",
    "Résidence 4">>

Pos(sq, x) == CHOOSE n \in 1..Len(sq) : sq[n] = x

\* C11: the list returned holds exactly the catalog entries whose postal
\* code starts with an allow-listed prefix, whatever their title, ascending
\* by (postal code, name); an entry without postal code is left out.
C11_DirectoryFilter ==
  fpc \in {"monitor", "fac"} =>
    LET wanted == {n \in 1..Len(data) :
                     "cp" \in DOMAIN data[n][2] /\ data[n][2]["cp"] \in IdfCps}
    IN  /\ {idf[k].id : k \in 1..Len(idf)} = wanted
        /\ Len(idf) = Cardinality(wanted)
        /\ \A k \in 1..Len(idf) : idf[k].cp = data[idf[k].id][2]["cp"]
        /\ \A k \in 1..(Len(idf) - 1) :
             \/ Pos(CpAscending, idf[k].cp) < Pos(CpAscending, idf[k + 1].cp)
             \/ /\ idf[k].cp = idf[k + 1].cp
                /\ Pos(NomAscending, idf[k].nom)
                     <= Pos(NomAscending, idf[k + 1].nom)

====
